---- MODULE Spec2Model ----
(***************************************************************************)
(* Model of src/anthropic_api_file_tools.py: five free functions that wrap *)
(* the vendor client (test_api, upload_file_to_workspace,                  *)
(* list_files_in_workspace, delete_file_from_workspace,                    *)
(* delete_all_files_from_workspace).                                       *)
(*                                                                         *)
(* The caller invokes one function at a time (pc = "idle" -> "done") and   *)
(* then returns to idle.  The client handle is opaque: what the remote     *)
(* service answers (a result, or an exception) and what the local file     *)
(* system says are inputs chosen by the environment and recorded in `env`. *)
(* `calls` is the log of remote calls of the invocation, `out` the lines   *)
(* printed, `table` the rows of the printed grid, `ret` the value returned *)
(* and `propagated` whether an exception left the function.                *)
(* Paths follow POSIX conventions ("/" is the only separator).             *)
(***************************************************************************)
EXTENDS Integers, Sequences, FiniteSets, TLC

VARIABLES pc, op, arg, env, calls, out, table, ret, propagated

vars == <<pc, op, arg, env, calls, out, table, ret, propagated>>

\* ------------------------------------------------------------------ bounds
MaxPathLen == 3
MaxFiles == 3

\* ------------------------------------------------------------- data values
\* Python's None, as a value distinct from every string the model uses.
None == "<None>"

\* A path is a sequence of tokens: the separator, a plain name piece, and
\* dotted suffixes.
PathTokens == {"/", "a", ".pdf", ".txt", ".md", ".json", ".exe", ".gz"}

RECURSIVE SeqsUpTo(_, _)
SeqsUpTo(S, n) ==
    IF n = 0 THEN {<<>>}
    ELSE LET shorter == SeqsUpTo(S, n - 1)
         IN  shorter \cup {Append(s, x) : s \in {t \in shorter : Len(t) = n - 1}, x \in S}

Paths == SeqsUpTo(PathTokens, MaxPathLen)

\* Identifiers the remote service hands out.
FileIds == {"f1", "f2"}

\* Values a caller passes as file_id to test_api.
TestFileIds == {None, ""} \cup FileIds

\* File records of the remote service (FileMetadata): two identifiers, two
\* contents, so that records with equal identifiers and different fields exist.
FileRecord(id, fname) ==
    [id           |-> id,
     created_at   |-> [sec |-> IF id = "f1" THEN 10 ELSE 20,
                       usec |-> IF fname = "a.txt" THEN 0 ELSE 7],
     filename     |-> fname,
     mime_type    |-> IF fname = "a.txt" THEN "text/plain" ELSE "application/pdf",
     size_bytes   |-> IF fname = "a.txt" THEN 1 ELSE 2,
     type         |-> "file",
     downloadable |-> fname = "b.pdf"]

FileRecords == {FileRecord(id, fname) : id \in FileIds, fname \in {"a.txt", "b.pdf"}}

FileLists == SeqsUpTo(FileRecords, MaxFiles)

\* ------------------------------------------------------------ remote calls
Call(api, fid, name, mime) == [api |-> api, file_id |-> fid, name |-> name, mime |-> mime]

MessagesCreate      == Call("messages.create", None, None, None)
BetaMessagesCreate(fid) == Call("beta.messages.create", fid, None, None)
FilesUpload(name, mime) == Call("beta.files.upload", None, name, mime)
FilesList           == Call("beta.files.list", None, None, None)
FilesDelete(fid)    == Call("beta.files.delete", fid, None, None)

\* A printed line: the message and the value interpolated into it.
Line(msg, v) == [msg |-> msg, v |-> v]

\* The running state of one invocation.
Frame == [calls |-> <<>>, out |-> <<>>, table |-> None, ret |-> None, raised |-> FALSE]

\* A handler that lets the exception through.
CatchNothing(f, msg) == f

\* `except Exception as e: print(f"...: {e}")`: a raised exception is caught
\* and a line is printed; the function goes on after the try statement.
Catch(f, msg) ==
    IF f.raised
    THEN [f EXCEPT !.raised = FALSE, !.out = Append(@, Line(msg, "e"))]
    ELSE f

\* -------------------------------------------------- upload_file_to_workspace
\* file_path.split("/"): the segments between separators.
RECURSIVE Split(_, _, _)
Split(path, i, cur) ==
    IF i > Len(path) THEN <<cur>>
    ELSE IF path[i] = "/" THEN <<cur>> \o Split(path, i + 1, <<>>)
    ELSE Split(path, i + 1, Append(cur, path[i]))

\* file_name = file_path.split("/")[-1]
FileName(path) ==
    LET parts == Split(path, 1, <<>>)
    IN  parts[Len(parts)]

\* os.path.isfile can only be true of a non-empty path whose last segment
\* names something (a trailing separator never names a regular file).
CanBeFile(path) == path # <<>> /\ path[Len(path)] # "/"

\* posixpath.splitext as mimetypes uses it: the extension is the last dotted
\* suffix, provided something precedes it in the name.
SplitExt(name) ==
    IF Len(name) >= 2 /\ name[Len(name)] \notin {"a", "/"}
    THEN [base |-> SubSeq(name, 1, Len(name) - 1), ext |-> name[Len(name)]]
    ELSE [base |-> name, ext |-> ""]

TypesMap(ext) ==
    CASE ext = ".pdf"  -> "application/pdf"
      [] ext = ".txt"  -> "text/plain"
      [] ext = ".md"   -> "text/markdown"
      [] ext = ".json" -> "application/json"
      [] ext = ".exe"  -> "application/x-msdos-program"
      [] OTHER         -> None

\* mimetypes.guess_type(file_name)[0]: an encoding suffix (.gz) is stripped
\* first, then the extension is looked up.
GuessType(name) ==
    LET s1 == SplitExt(name)
        s2 == IF s1.ext = ".gz" THEN SplitExt(s1.base) ELSE s1
    IN  TypesMap(s2.ext)

\* The remapping with the JSON case left out.
RemapMarkdownOnly(file_type) ==
    IF file_type = "text/markdown" THEN "text/plain" ELSE file_type

\* Lines 121-124: markdown and JSON are declared as plain text.
Remap(file_type) ==
    LET t1 == IF file_type = "text/markdown" THEN "text/plain" ELSE file_type
    IN  IF t1 = "application/json" THEN "text/plain" ELSE t1

\* An allow-list that only turns away names of unknown type.
RejectedUnknownOnly(file_type) == file_type = None

\* Line 125: the allow-list.
Rejected(file_type) == file_type # "application/pdf" /\ file_type # "text/plain"

\* The try block without the item fallback: a result that carries the
\* identifier as an item makes `result.id` raise.
UploadTryAttrOnly(file_name, file_type, openOK, outcome, id) ==
    IF ~openOK
    THEN [Catch([Frame EXCEPT !.raised = TRUE], "File upload failed") EXCEPT !.ret = None]
    ELSE LET called == [Frame EXCEPT !.calls = Append(@, FilesUpload(file_name, file_type))]
         IN  IF outcome # "id_attr"
             THEN [Catch([called EXCEPT !.raised = TRUE], "File upload failed")
                       EXCEPT !.ret = None]
             ELSE [called EXCEPT
                       !.out = @ \o <<Line("File uploaded successfully", file_name),
                                      Line("File ID", id)>>,
                       !.ret = id]

\* Lines 130-139: the try block.  open() may fail before the call is made;
\* the call may raise; its result carries the identifier as an attribute or
\* as an item.
UploadTry(file_name, file_type, openOK, outcome, id) ==
    IF ~openOK
    THEN [Catch([Frame EXCEPT !.raised = TRUE], "File upload failed") EXCEPT !.ret = None]
    ELSE LET called == [Frame EXCEPT !.calls = Append(@, FilesUpload(file_name, file_type))]
         IN  IF outcome = "raise"
             THEN [Catch([called EXCEPT !.raised = TRUE], "File upload failed")
                       EXCEPT !.ret = None]
             ELSE [called EXCEPT
                       !.out = @ \o <<Line("File uploaded successfully", file_name),
                                      Line("File ID", id)>>,
                       !.ret = id]

\* Lines 115-139: everything after the existence check.
UploadExisting(file_path, openOK, outcome, id) ==
    LET file_name == FileName(file_path)
        file_type == Remap(GuessType(file_name))
    IN  IF Rejected(file_type)
        THEN [Frame EXCEPT !.out = Append(@, Line("Unsupported file type", None))]
        ELSE UploadTry(file_name, file_type, openOK, outcome, id)

\* The function without its existence check.
upload_without_isfile(file_path, isfile, openOK, outcome, id) ==
    UploadExisting(file_path, openOK, outcome, id)

upload_file_to_workspace(file_path, isfile, openOK, outcome, id) ==
    IF ~isfile
    THEN [Frame EXCEPT !.out = Append(@, Line("File does not exist", file_path))]
    ELSE UploadExisting(file_path, openOK, outcome, id)

UploadOutcomes == {"id_attr", "id_item", "raise"}

\* ------------------------------------------------------------------ test_api
\* Python truthiness of the values passed as file_id: `not file_id`.
Falsy(v) == v = None \/ v = ""

TestOutcomes == {"ok", "empty_content", "raise"}

\* Lines 46-47 and 74-75: the reply is printed; response.content[0] raises
\* when the reply has no content block.
PrintReply(f, outcome) ==
    IF outcome = "raise" THEN [f EXCEPT !.raised = TRUE]
    ELSE LET f1 == [f EXCEPT !.out = Append(@, Line("API test successful!", None))]
         IN  IF outcome = "empty_content" THEN [f1 EXCEPT !.raised = TRUE]
             ELSE [f1 EXCEPT !.out = Append(@, Line("Response by Claude", "text"))]

\* Line 36: which branch is taken.
PlainBranch(file_id) == Falsy(file_id)

test_api(file_id, outcome) ==
    LET call == IF PlainBranch(file_id) THEN MessagesCreate ELSE BetaMessagesCreate(file_id)
        tried == PrintReply([Frame EXCEPT !.calls = Append(@, call)], outcome)
    IN  Catch(tried, "API test failed")

\* --------------------------------------------------- list_files_in_workspace
\* file.created_at.strftime('%Y-%m-%d %H:%M:%S'): whole seconds only.
Strftime(created_at) == created_at.sec

\* A dict kept in insertion order, as a sequence of <<key, value>>.
\* d[k] = v: an existing key keeps its place and gets the new value.
DictSet(d, k, v) ==
    IF \E i \in 1..Len(d) : d[i][1] = k
    THEN [i \in 1..Len(d) |-> IF d[i][1] = k THEN <<k, v>> ELSE d[i]]
    ELSE Append(d, <<k, v>>)

\* Lines 149-157: the value stored for one file.
DictValue(file) ==
    [created_at   |-> Strftime(file.created_at),
     filename     |-> file.filename,
     mime_type    |-> file.mime_type,
     size_bytes   |-> file.size_bytes,
     type         |-> file.type,
     downloadable |-> file.downloadable]

\* Lines 147-157: the loop that fills files_dict.
RECURSIVE FilesDict(_, _, _)
FilesDict(files, i, d) ==
    IF i > Len(files) THEN d
    ELSE FilesDict(files, i + 1, DictSet(d, files[i].id, DictValue(files[i])))

\* Lines 158-167: one table row per dict entry, the key as column "File ID".
TableRow(entry) ==
    [file_id      |-> entry[1],
     created      |-> entry[2].created_at,
     file_name    |-> entry[2].filename,
     mime_type    |-> entry[2].mime_type,
     size_bytes   |-> entry[2].size_bytes,
     type         |-> entry[2].type,
     downloadable |-> entry[2].downloadable]

DataFrame(d) == [i \in 1..Len(d) |-> TableRow(d[i])]

list_files_in_workspace(listOK, files) ==
    LET called == [Frame EXCEPT !.calls = Append(@, FilesList)]
        tried  == IF ~listOK THEN [called EXCEPT !.raised = TRUE]
                  ELSE [called EXCEPT
                            !.out = Append(@, Line("Files currently uploaded", None)),
                            !.table = DataFrame(FilesDict(files, 1, <<>>))]
    IN  Catch(tried, "Failed to list files")

\* ------------------------------------------------ delete_file_from_workspace
delete_file_from_workspace(file_id, deleteOK) ==
    LET called == [Frame EXCEPT !.calls = Append(@, FilesDelete(file_id))]
        tried  == IF ~deleteOK THEN [called EXCEPT !.raised = TRUE]
                  ELSE [called EXCEPT !.out = Append(@, Line("deleted successfully", file_id))]
    IN  Catch(tried, "Failed to delete file")

\* -------------------------------------------- delete_all_files_from_workspace
\* The loop deleting the first listed file every time round.
RECURSIVE DeleteLoopStaleId(_, _, _, _)
DeleteLoopStaleId(files, i, failAt, f) ==
    IF i > Len(files) THEN f
    ELSE LET called == [f EXCEPT !.calls = Append(@, FilesDelete(files[1].id))]
         IN  IF i = failAt
             THEN [called EXCEPT !.raised = TRUE]
             ELSE DeleteLoopStaleId(files, i + 1, failAt,
                             [called EXCEPT !.out = Append(@, Line("Deleted file with ID", files[1].id))])

\* The loop with the try statement inside it: a failed delete is reported
\* and the loop goes on with the next file.
RECURSIVE DeleteLoopContinue(_, _, _, _)
DeleteLoopContinue(files, i, failAt, f) ==
    IF i > Len(files) THEN f
    ELSE LET called == [f EXCEPT !.calls = Append(@, FilesDelete(files[i].id))]
         IN  IF i = failAt
             THEN DeleteLoopContinue(files, i + 1, failAt,
                             [called EXCEPT !.out = Append(@, Line("Failed to delete files", "e"))])
             ELSE DeleteLoopContinue(files, i + 1, failAt,
                             [called EXCEPT !.out = Append(@, Line("Deleted file with ID", files[i].id))])

\* Lines 226-228: the loop; the delete call for the failAt-th file raises
\* (failAt = 0: none does).
RECURSIVE DeleteLoop(_, _, _, _)
DeleteLoop(files, i, failAt, f) ==
    IF i > Len(files) THEN f
    ELSE LET called == [f EXCEPT !.calls = Append(@, FilesDelete(files[i].id))]
         IN  IF i = failAt
             THEN [called EXCEPT !.raised = TRUE]
             ELSE DeleteLoop(files, i + 1, failAt,
                             [called EXCEPT !.out = Append(@, Line("Deleted file with ID", files[i].id))])

\* Line 231: the statement after the try statement, reached whenever no
\* exception is in flight.
PrintCompletion(f) ==
    IF f.raised THEN f
    ELSE [f EXCEPT !.out = Append(@, Line("All files deleted successfully.", None))]

delete_all_files_from_workspace(listOK, files, failAt) ==
    LET called == [Frame EXCEPT !.calls = Append(@, FilesList)]
        tried  == IF ~listOK THEN [called EXCEPT !.raised = TRUE]
                  ELSE DeleteLoop(files, 1, failAt, called)
    IN  PrintCompletion(Catch(tried, "Failed to delete files"))

\* ------------------------------------------------------------- transitions
Finish(name, a, e, f) ==
    /\ pc' = "done"
    /\ op' = name
    /\ arg' = a
    /\ env' = e
    /\ calls' = f.calls
    /\ out' = f.out
    /\ table' = f.table
    /\ ret' = f.ret
    /\ propagated' = f.raised

\* What the environment did during the invocation: the file system's answer,
\* whether open() worked, how the single remote call ended and the identifier
\* it assigned, whether the list call worked and what it listed, and which
\* delete call of the loop raised.
NoEnv == [isfile |-> FALSE, openOK |-> FALSE, outcome |-> None, id |-> None,
          listOK |-> FALSE, files |-> <<>>, failAt |-> 0]

Upload ==
    /\ pc = "idle"
    /\ \E file_path \in Paths, isfile \in BOOLEAN :
         /\ isfile => CanBeFile(file_path)
         /\ \E openOK \in BOOLEAN, outcome \in UploadOutcomes, id \in FileIds :
              \* inputs that are never looked at are normalised
              /\ ~isfile => (openOK /\ outcome = "raise" /\ id = "f1")
              /\ ~openOK => (outcome = "raise" /\ id = "f1")
              /\ outcome = "raise" => id = "f1"
              /\ Finish("upload", file_path,
                        [NoEnv EXCEPT !.isfile = isfile, !.openOK = openOK,
                                      !.outcome = outcome, !.id = id],
                        upload_file_to_workspace(file_path, isfile, openOK, outcome, id))

TestApi ==
    /\ pc = "idle"
    /\ \E file_id \in TestFileIds, outcome \in TestOutcomes :
         Finish("test_api", file_id, [NoEnv EXCEPT !.outcome = outcome],
                test_api(file_id, outcome))

ListFiles ==
    /\ pc = "idle"
    /\ \E listOK \in BOOLEAN, files \in FileLists :
         /\ ~listOK => files = <<>>
         /\ Finish("list", None, [NoEnv EXCEPT !.listOK = listOK, !.files = files],
                   list_files_in_workspace(listOK, files))

DeleteFile ==
    /\ pc = "idle"
    /\ \E file_id \in FileIds, deleteOK \in BOOLEAN :
         Finish("delete", file_id,
                [NoEnv EXCEPT !.outcome = IF deleteOK THEN "ok" ELSE "raise"],
                delete_file_from_workspace(file_id, deleteOK))

DeleteAll ==
    /\ pc = "idle"
    /\ \E listOK \in BOOLEAN, files \in FileLists :
         /\ ~listOK => files = <<>>
         /\ \E failAt \in 0..Len(files) :
              Finish("delete_all", None,
                     [NoEnv EXCEPT !.listOK = listOK, !.files = files, !.failAt = failAt],
                     delete_all_files_from_workspace(listOK, files, failAt))

Return ==
    /\ pc = "done"
    /\ pc' = "idle"
    /\ op' = "none"
    /\ arg' = None
    /\ env' = NoEnv
    /\ calls' = <<>>
    /\ out' = <<>>
    /\ table' = None
    /\ ret' = None
    /\ propagated' = FALSE

Init ==
    /\ pc = "idle"
    /\ op = "none"
    /\ arg = None
    /\ env = NoEnv
    /\ calls = <<>>
    /\ out = <<>>
    /\ table = None
    /\ ret = None
    /\ propagated = FALSE

Next == TestApi \/ Upload \/ ListFiles \/ DeleteFile \/ DeleteAll \/ Return

Spec == Init /\ [][Next]_vars

\* ================================================================ properties
Done(name) == pc = "done" /\ op = name

\* os.path.basename on POSIX: what follows the last separator.
BaseName(path) ==
    LET seps == {i \in 1..Len(path) : path[i] = "/"}
        last == IF seps = {} THEN 0 ELSE CHOOSE i \in seps : \A j \in seps : j <= i
    IN  SubSeq(path, last + 1, Len(path))

UploadCalls == {i \in 1..Len(calls) : calls[i].api = "beta.files.upload"}
DeleteCalls == {i \in 1..Len(calls) : calls[i].api = "beta.files.delete"}

\* The four guessed types the gate lets through.
GateTypes == {"application/pdf", "text/plain", "text/markdown", "application/json"}

\* The type the claim expects to be sent for each of them.
SentAs(guessed) ==
    CASE guessed = "application/pdf"  -> "application/pdf"
      [] guessed = "text/plain"       -> "text/plain"
      [] guessed = "text/markdown"    -> "text/plain"
      [] guessed = "application/json" -> "text/plain"

\* The delete calls for the first n listed files, in the order listed.
DeletesOfFirst(n) == [i \in 1..n |-> FilesDelete(env.files[i].id)]

CompletionPrinted ==
    \E i \in 1..Len(out) : out[i].msg = "All files deleted successfully."

\* C1: upload_file_to_workspace on a path that is not an existing regular file
\* makes no remote call and returns None.
C1_MissingFileNoCallNoId ==
    (Done("upload") /\ ~env.isfile) => (calls = <<>> /\ ret = None)

\* A missing path whose name would pass the type gate.
C1_Witness ==
    /\ Done("upload") /\ ~env.isfile
    /\ arg # <<>>
    /\ GuessType(BaseName(arg)) = "application/pdf"
    /\ calls = <<>>

\* C2: every upload call issued carries application/pdf or text/plain, and an
\* existing file whose guessed type is none of PDF, plain text, markdown, JSON
\* (also no type at all) gets None and no upload call.
C2_GateRejectsOtherTypes ==
    /\ \A i \in UploadCalls : calls[i].mime \in {"application/pdf", "text/plain"}
    /\ (Done("upload") /\ env.isfile /\ GuessType(BaseName(arg)) \notin GateTypes)
           => (ret = None /\ UploadCalls = {})

\* An existing, readable .exe file whose upload would have succeeded.
C2_Witness ==
    /\ Done("upload") /\ env.isfile /\ env.openOK /\ env.outcome = "id_attr"
    /\ GuessType(BaseName(arg)) = "application/x-msdos-program"
    /\ ret = None /\ calls = <<>>

\* C3 as stated: for an existing file of one of the four gate types the upload
\* call is issued exactly once, with the base name and the mapped type.
C3_AsStated ==
    (Done("upload") /\ env.isfile /\ GuessType(BaseName(arg)) \in GateTypes)
        => calls = <<FilesUpload(BaseName(arg), SentAs(GuessType(BaseName(arg))))>>

\* C3 (amended): for an existing file of one of the four gate types that can
\* be opened for reading, the upload call is issued exactly once with the base
\* name and the mapped type (markdown, JSON -> text/plain; PDF, plain text
\* unchanged); when the file cannot be opened no upload call is issued.
C3_GateMapping ==
    (Done("upload") /\ env.isfile /\ GuessType(BaseName(arg)) \in GateTypes)
        => IF env.openOK
           THEN calls = <<FilesUpload(BaseName(arg), SentAs(GuessType(BaseName(arg))))>>
           ELSE calls = <<>>

\* A JSON file below a directory, sent as text/plain under its base name.
C3_Witness ==
    /\ Done("upload") /\ env.isfile /\ env.openOK
    /\ Len(arg) = 3 /\ arg[1] = "/"
    /\ GuessType(BaseName(arg)) = "application/json"
    /\ Len(calls) = 1 /\ calls[1].mime = "text/plain" /\ calls[1].name = BaseName(arg)

\* C4: the function returns the identifier the service assigned exactly when
\* the file exists, passes the gate and the upload call succeeds, and None in
\* every failure case.
C4_IdIffAllSucceeded ==
    Done("upload") =>
        LET succeeded == /\ env.isfile
                         /\ GuessType(BaseName(arg)) \in GateTypes
                         /\ env.openOK
                         /\ env.outcome \in {"id_attr", "id_item"}
        IN  /\ succeeded => (ret = env.id /\ ret # None)
            /\ ~succeeded => ret = None

\* A successful upload whose result carries the identifier as an item.
C4_Witness ==
    /\ Done("upload") /\ env.isfile /\ env.openOK /\ env.outcome = "id_item"
    /\ env.id = "f2" /\ ret = "f2"

\* C5: with no failing remote call, delete-all issues the list call and then
\* one delete call per listed file, in the order listed, and nothing else.
C5_OneDeletePerListedFile ==
    (Done("delete_all") /\ env.listOK /\ env.failAt = 0)
        => calls = <<FilesList>> \o DeletesOfFirst(Len(env.files))

\* Three files listed, the first two with different identifiers.
C5_Witness ==
    /\ Done("delete_all") /\ env.listOK /\ env.failAt = 0
    /\ Len(env.files) = MaxFiles
    /\ env.files[1].id # env.files[2].id
    /\ Len(calls) = MaxFiles + 1

RemoteCallFailed ==
    \/ op \in {"test_api", "delete"} /\ env.outcome = "raise"
    \/ op = "upload" /\ env.isfile /\ env.openOK /\ env.outcome = "raise"
         /\ GuessType(BaseName(arg)) \in GateTypes
    \/ op \in {"list", "delete_all"} /\ (~env.listOK \/ env.failAt > 0)

\* C6: whichever remote call of whichever operation fails, the function
\* returns normally: no exception leaves it.
C6_NoExceptionPropagates ==
    (pc = "done" /\ RemoteCallFailed) => ~propagated

\* Delete-all whose second delete call fails, with a file left after it.
C6_Witness ==
    /\ Done("delete_all") /\ env.listOK /\ env.failAt = 2 /\ Len(env.files) > 2
    /\ ~propagated

\* C7 as stated: the table has one row per listed record, row i holding the
\* seven fields of record i, also when identifiers repeat.
C7_AsStated ==
    (Done("list") /\ env.listOK) =>
        /\ Len(table) = Len(env.files)
        /\ \A i \in 1..Len(env.files) :
              table[i] = [file_id      |-> env.files[i].id,
                          created      |-> Strftime(env.files[i].created_at),
                          file_name    |-> env.files[i].filename,
                          mime_type    |-> env.files[i].mime_type,
                          size_bytes   |-> env.files[i].size_bytes,
                          type         |-> env.files[i].type,
                          downloadable |-> env.files[i].downloadable]

\* C8 as stated: one remote call per invocation; the file-referencing call
\* when file_id is anything but None, the plain greeting call otherwise.
C8_AsStated ==
    Done("test_api") =>
        /\ Len(calls) = 1
        /\ arg # None => calls[1] = BetaMessagesCreate(arg)
        /\ arg = None => calls[1] = MessagesCreate

C10_AsStated ==
    (Done("delete_all") /\ CompletionPrinted) => (env.listOK /\ env.failAt = 0)
====
